---- MODULE Spec2Model ----
(***************************************************************************)
(* A model of jchv/again (src/main.go): the cyclic port allocator          *)
(* (nextPort), the TCP port forwarders (portForwarder.Cycle / Run), the    *)
(* change-event debouncer and the supervisor loop (runner).                *)
(*                                                                         *)
(* Goroutines are modelled at statement granularity wherever a statement   *)
(* reads or writes state another goroutine can see (p.dest, the channels,  *)
(* the timer, the child process); purely local statements are folded into  *)
(* the step before them.                                                   *)
(***************************************************************************)
EXTENDS Integers, Sequences, FiniteSets, TLC

(***************************************************************************)
(* Bounds of the model.                                                    *)
(***************************************************************************)
\* Largest size of the port range [port-min, port-max) tried (0 = empty).
MaxRangeSize == 4
\* Pulses the abstracted debouncer sends to the runner in Spec.
MaxPulses == 2
\* Inbound connections accepted over a run, all forwarders together.
MaxConns == 2
\* The clock stops at MaxTime (SpecDeb).
MaxTime == 9
\* Change events the file watcher delivers over a run (SpecDeb).
MaxEvents == 3
\* The -debounce duration, in clock ticks.
Delay == 2
\* Cycle() calls each of the concurrent callers makes (SpecConc).
MaxCalls == 2

(***************************************************************************)
(* Program constants.                                                      *)
(***************************************************************************)
\* portCycle, portForwarder.src are uint16: arithmetic is modulo 2^16.
UInt16Mod == 65536
\* make(chan struct{}, 64): capacity of signalin and of signalout.
ChanCap == 64

ToUint16(x) == x % UInt16Mod

(***************************************************************************)
(* Configurations: the flag values init() reads.  Ports are TCP ports      *)
(* (0 <= port-min, port-max <= 65536); the range may be empty, since       *)
(* init() does not reject it.                                              *)
(***************************************************************************)
PortMins == {0, 50000, 65532}

PortRanges ==
    {r \in {<<m, m + k>> : m \in PortMins, k \in 0..MaxRangeSize} :
        r[2] <= UInt16Mod}

\* -addr-env values: one pair, two pairs, and two pairs naming the same
\* public port (the second replaces the first in portMap).
AddrEnvChoices ==
    { << [env |-> "A", src |-> 8080] >>,
      << [env |-> "A", src |-> 8080], [env |-> "B", src |-> 6600] >>,
      << [env |-> "A", src |-> 8080], [env |-> "B", src |-> 8080] >> }

VARIABLES
    \* configuration (flags), constant after init()
    portMin, portMax, addrEnvs, timerSync,
    \* allocator
    portCycle, returned, portMutex, callers,
    \* forwarders
    portMap, dest, hist, fpc, cur, conns,
    \* supervisor
    rpc, todo, inCycle, cmdEnv, children, desc, rlog, consumed,
    \* channels
    signalin, signalout, sent,
    \* debouncer, its timer and the clock
    dpc, tArmed, tDeadline, tC, now,
    events, lastEnq, lastRecv, burstPulses, burstOK, lastSend,
    bursts, spacingOK, pending

cfgVars   == <<portMin, portMax, addrEnvs, timerSync, portMap>>
allocVars == <<portCycle, returned, portMutex, callers>>
fwdVars   == <<dest, hist, fpc, cur, conns>>
runVars   == <<rpc, todo, inCycle, cmdEnv, children, desc, rlog, consumed>>
debVars   == <<dpc, tArmed, tDeadline, tC, now, signalin,
               events, lastEnq, lastRecv, burstPulses, burstOK, lastSend,
               bursts, spacingOK, pending>>
vars == <<cfgVars, allocVars, fwdVars, runVars, debVars, signalout, sent>>

\* "no time yet" for the ghost time stamps.
NoTime == 0 - 1

\* The forwarder objects init() creates, one per -addr-env pair.
Fwds == DOMAIN addrEnvs

\* Size of the configured range.
RangeSize == portMax - portMin

(***************************************************************************)
(* Port allocator.                                                         *)
(***************************************************************************)
\* The cursor init() sets: uint16(portMin) - 1, in uint16 arithmetic.
InitialCursor(pmin) == (ToUint16(pmin) + UInt16Mod - 1) % UInt16Mod

\* Variants of nextPort with a slip: port-max taken as the last port of the
\* range, and the increment left out.
nextPortInclusive(cursor) ==
    IF cursor = ToUint16(portMax) THEN ToUint16(portMin)
    ELSE (cursor + 1) % UInt16Mod

nextPortNoAdvance(cursor) ==
    IF cursor = ToUint16(portMax) THEN ToUint16(portMin) ELSE cursor

\* nextPort(): the cursor after the call, which is also the value returned.
nextPort(cursor) ==
    LET inc == (cursor + 1) % UInt16Mod
    IN  IF inc = ToUint16(portMax) THEN ToUint16(portMin) ELSE inc

(***************************************************************************)
(* init(): the registry keyed by public port.  A later pair with the same  *)
(* port overwrites the earlier map entry.                                  *)
(***************************************************************************)
PortMapOf(pairs) ==
    [p \in {ToUint16(pairs[i].src) : i \in DOMAIN pairs} |->
        CHOOSE i \in DOMAIN pairs :
            /\ ToUint16(pairs[i].src) = p
            /\ \A j \in DOMAIN pairs : ToUint16(pairs[j].src) = p => j <= i]

\* A variant of EnvEntry that advertises the port after the one returned.
EnvEntryNextPort(name, port) ==
    [name |-> name, host |-> "localhost", port |-> (port + 1) % UInt16Mod]

\* fmt.Sprintf("%s=localhost:%d", mapper.env, port)
EnvEntry(name, port) == [name |-> name, host |-> "localhost", port |-> port]

\* os.Environ(): the inherited environment carries no address entries.
OsEnviron == <<>>

\* The child the runner holds in cmd: the one spawned last.
cmd == Len(children)

\* log.Fatalln has ended the program.
Exited == rpc = "fatal"

\* The value of forwarder f's dest after its n-th store (0: the zero value
\* the struct is created with).
DestAt(f, n) == IF n = 0 THEN 0 ELSE hist[f][n]

\* The runner is not inside mapper.Cycle(); otherwise inCycle holds the
\* public port of the mapper and Cycle()'s local variable port.
NoCycle == [mapper |-> 0, port |-> 0]

\* A goroutine that is not inside Cycle(): pc is its position, reg the value
\* it read for portCycle++, got the ports its calls returned.
IdleCaller == [pc |-> "idle", reg |-> 0, got |-> <<>>]

(***************************************************************************)
(* The state after init() has run and main() has started the debouncer     *)
(* and runner goroutines.                                                  *)
(***************************************************************************)
InitWith(ranges, pairs, syncs) ==
    /\ \E r \in ranges : portMin = r[1] /\ portMax = r[2]
    /\ addrEnvs \in pairs
    /\ timerSync \in syncs
    /\ portCycle = InitialCursor(portMin)
    /\ returned = <<>>
    /\ portMutex = 0
    /\ callers = [f \in DOMAIN addrEnvs |-> IdleCaller]
    /\ portMap = PortMapOf(addrEnvs)
    /\ dest = [f \in DOMAIN addrEnvs |-> 0]
    /\ hist = [f \in DOMAIN addrEnvs |-> <<>>]
    /\ fpc = [f \in DOMAIN addrEnvs |-> "listen"]
    /\ cur = [f \in DOMAIN addrEnvs |-> 0]
    /\ conns = <<>>
    /\ rpc = "env"
    /\ todo = DOMAIN portMap
    /\ inCycle = NoCycle
    /\ cmdEnv = OsEnviron
    /\ children = <<>>
    /\ desc = <<>>
    /\ rlog = <<>>
    /\ consumed = 0
    /\ signalin = 0
    /\ signalout = 0
    /\ sent = 0
    /\ dpc = "idle"
    /\ tArmed = TRUE
    /\ tDeadline = Delay
    /\ tC = 0
    /\ now = 0
    /\ events = 0
    /\ lastEnq = NoTime
    /\ lastRecv = NoTime
    /\ burstPulses = 0
    /\ burstOK = TRUE
    /\ lastSend = [at |-> NoTime, lastRecv |-> NoTime]
    /\ bursts = 0
    /\ spacingOK = TRUE
    /\ pending = FALSE

(***************************************************************************)
(* runner (src/main.go:180-208).                                           *)
(***************************************************************************)
\* One iteration of `range portMap` begins, for the forwarder registered
\* under public port k, with port := nextPort() in Cycle(): the cursor is
\* advanced under portMutex, which is released when nextPort returns.  Go
\* ranges over a map in no fixed order.
RunnerCycle(k) ==
    /\ ~Exited
    /\ rpc = "env"
    /\ k \in todo
    /\ LET port == nextPort(portCycle)
       IN  /\ portCycle' = port
           /\ returned' = Append(returned, port)
           /\ inCycle' = [mapper |-> k, port |-> port]
    /\ rpc' = "store"
    /\ UNCHANGED <<cfgVars, portMutex, callers, fwdVars, todo, cmdEnv,
                   children, desc, rlog, consumed, debVars, signalout, sent>>

\* atomic.StoreUint32(&p.dest, uint32(port)), the return of Cycle() and the
\* append of the forwarder's entry to cmd.Env, which ends the iteration.
RunnerStore ==
    /\ ~Exited
    /\ rpc = "store"
    /\ LET f    == portMap[inCycle.mapper]
           port == inCycle.port
       IN  /\ dest' = [dest EXCEPT ![f] = port]
           /\ hist' = [hist EXCEPT ![f] = Append(@, port)]
           /\ cmdEnv' = Append(cmdEnv, EnvEntry(addrEnvs[f].env, port))
           /\ rlog' = Append(rlog, [op |-> "cycle", fwd |-> f, port |-> port])
    /\ todo' = todo \ {inCycle.mapper}
    /\ inCycle' = NoCycle
    /\ rpc' = "env"
    /\ UNCHANGED <<cfgVars, allocVars, fpc, cur, conns, children, desc,
                   consumed, debVars, signalout, sent>>

\* cmd.Start(): the child runs with cmd.Env, or log.Fatalln ends the program.
RunnerStart ==
    /\ ~Exited
    /\ UNCHANGED inCycle
    /\ rpc = "env"
    /\ todo = {}
    /\ \/ /\ children' = Append(children, [env |-> cmdEnv, st |-> "running"])
          /\ desc' = Append(desc, "none")
          /\ rpc' = "recv"
          /\ rlog' = Append(rlog, [op |-> "spawn", fwd |-> 0, port |-> 0])
       \/ /\ rpc' = "fatal"
          /\ UNCHANGED <<children, desc, rlog>>
    /\ UNCHANGED <<cfgVars, allocVars, fwdVars, todo, cmdEnv, consumed,
                   debVars, signalout, sent>>

\* A variant of RunnerRecv that goes on to the next spawn without killing
\* and reaping the child.
RunnerRecvNoKill ==
    /\ ~Exited
    /\ UNCHANGED inCycle
    /\ rpc = "recv"
    /\ signalout > 0
    /\ signalout' = signalout - 1
    /\ consumed' = consumed + 1
    /\ rlog' = <<>>
    /\ rpc' = "env"
    /\ todo' = DOMAIN portMap
    /\ cmdEnv' = OsEnviron
    /\ UNCHANGED <<cfgVars, allocVars, fwdVars, children, desc, debVars, sent>>

\* <-signal: one restart pulse is taken off the channel.
RunnerRecv ==
    /\ ~Exited
    /\ UNCHANGED inCycle
    /\ rpc = "recv"
    /\ signalout > 0
    /\ signalout' = signalout - 1
    /\ consumed' = consumed + 1
    /\ rlog' = <<>>
    /\ rpc' = "kill"
    /\ UNCHANGED <<cfgVars, allocVars, fwdVars, todo, cmdEnv, children, desc,
                   debVars, sent>>

\* A variant of RunnerKill that does not wait for the killed child.
RunnerKillNoWait ==
    /\ ~Exited
    /\ UNCHANGED inCycle
    /\ rpc = "kill"
    /\ children' = [children EXCEPT ![cmd].st =
                        IF @ = "running" THEN "zombie" ELSE @]
    /\ desc' = [desc EXCEPT ![cmd] = IF @ = "group" THEN "killed" ELSE @]
    /\ rlog' = Append(rlog, [op |-> "kill", fwd |-> 0, port |-> 0])
    /\ rpc' = "env"
    /\ todo' = DOMAIN portMap
    /\ cmdEnv' = OsEnviron
    /\ UNCHANGED <<cfgVars, allocVars, fwdVars, consumed,
                   debVars, signalout, sent>>

\* syscall.Kill(-cmd.Process.Pid, SIGKILL): the child, if it still runs,
\* is killed and stays a zombie until it is waited for.  The signal goes to
\* every process that is in the child's process group at that moment; a
\* descendant it reaches ends some time after the call has returned.
RunnerKill ==
    /\ ~Exited
    /\ UNCHANGED inCycle
    /\ rpc = "kill"
    /\ children' = [children EXCEPT ![cmd].st =
                        IF @ = "running" THEN "zombie" ELSE @]
    /\ desc' = [desc EXCEPT ![cmd] = IF @ = "group" THEN "killed" ELSE @]
    /\ rlog' = Append(rlog, [op |-> "kill", fwd |-> 0, port |-> 0])
    /\ rpc' = "wait"
    /\ UNCHANGED <<cfgVars, allocVars, fwdVars, todo, cmdEnv, consumed,
                   debVars, signalout, sent>>

\* cmd.Process.Wait() returns once the child has exited; then the loop
\* body starts again: a new cmd with cmd.Env = os.Environ().
RunnerWait ==
    /\ ~Exited
    /\ UNCHANGED inCycle
    /\ rpc = "wait"
    /\ children[cmd].st = "zombie"
    /\ children' = [children EXCEPT ![cmd].st = "reaped"]
    /\ UNCHANGED desc
    /\ rlog' = Append(rlog, [op |-> "reap", fwd |-> 0, port |-> 0])
    /\ rpc' = "env"
    /\ todo' = DOMAIN portMap
    /\ cmdEnv' = OsEnviron
    /\ UNCHANGED <<cfgVars, allocVars, fwdVars, consumed,
                   debVars, signalout, sent>>

\* The child ends by itself.
ChildExit ==
    /\ ~Exited
    /\ UNCHANGED inCycle
    /\ \E n \in DOMAIN children :
          /\ children[n].st = "running"
          /\ children' = [children EXCEPT ![n].st = "zombie"]
    /\ UNCHANGED <<cfgVars, allocVars, fwdVars, rpc, todo, cmdEnv, desc, rlog,
                   consumed, debVars, signalout, sent>>

\* output <- struct{}{} (src/main.go:164), the debouncer reduced to its
\* effect on the runner's channel.
PulseSent ==
    /\ ~Exited
    /\ sent < MaxPulses
    /\ signalout < ChanCap
    /\ signalout' = signalout + 1
    /\ sent' = sent + 1
    /\ UNCHANGED <<cfgVars, allocVars, fwdVars, runVars, debVars>>

(***************************************************************************)
(* portForwarder.Run (src/main.go:76-114), for forwarder object f.         *)
(***************************************************************************)
Listening(f) == fpc[f] \in {"accept", "load", "dial"}

\* net.Listen: fails when the port is taken, by another forwarder of this
\* program or by anything else; Run then returns the error.
FwdListen(f) ==
    /\ ~Exited
    /\ fpc[f] = "listen"
    /\ \/ /\ \A g \in Fwds :
                Listening(g) => ToUint16(addrEnvs[g].src) # ToUint16(addrEnvs[f].src)
          /\ fpc' = [fpc EXCEPT ![f] = "accept"]
       \/ fpc' = [fpc EXCEPT ![f] = "bindfail"]
    /\ UNCHANGED <<cfgVars, allocVars, dest, hist, cur, conns, runVars,
                   debVars, signalout, sent>>

NewConn(f) ==
    [fwd |-> f, port |-> 0, loadEp |-> 0, dialed |-> 0, dialEp |-> 0,
     st |-> "accepted", sock |-> "open", remote |-> "none",
     rd |-> "none", wr |-> "none"]

\* l.Accept() returns an inbound connection, or an error that ends Run.
FwdAccept(f) ==
    /\ ~Exited
    /\ fpc[f] = "accept"
    /\ \/ /\ Len(conns) < MaxConns
          /\ conns' = Append(conns, NewConn(f))
          /\ cur' = [cur EXCEPT ![f] = Len(conns) + 1]
          /\ fpc' = [fpc EXCEPT ![f] = "load"]
       \/ /\ fpc' = [fpc EXCEPT ![f] = "acceptfail"]
          /\ UNCHANGED <<cur, conns>>
    /\ UNCHANGED <<cfgVars, allocVars, dest, hist, runVars,
                   debVars, signalout, sent>>

\* dest := atomic.LoadUint32(&p.dest)
FwdLoad(f) ==
    /\ ~Exited
    /\ fpc[f] = "load"
    /\ conns' = [conns EXCEPT ![cur[f]] =
                    [@ EXCEPT !.port = dest[f], !.loadEp = Len(hist[f]),
                              !.st = "loaded"]]
    /\ fpc' = [fpc EXCEPT ![f] = "dial"]
    /\ UNCHANGED <<cfgVars, allocVars, dest, hist, cur, runVars,
                   debVars, signalout, sent>>

\* A variant of DialTarget that reads p.dest again when dialing.
DialTargetReread(f, c) == dest[f]

\* raddr: the port of fmt.Sprintf("localhost:%d", dest), dest being the
\* local variable loaded for connection c.
DialTarget(f, c) == conns[c].port

\* A variant of FwdDial in which a failed dial ends Run and leaves the
\* inbound socket open.
FwdDialFailureReturns(f) ==
    /\ ~Exited
    /\ fpc[f] = "dial"
    /\ LET c == cur[f]
           t == DialTarget(f, c)
       IN  \/ /\ t # 0
              /\ conns' = [conns EXCEPT ![c] =
                    [@ EXCEPT !.dialed = t, !.dialEp = Len(hist[f]),
                              !.st = "relaying", !.remote = "open",
                              !.rd = "copy", !.wr = "copy"]]
              /\ fpc' = [fpc EXCEPT ![f] = "accept"]
           \/ /\ conns' = [conns EXCEPT ![c] =
                    [@ EXCEPT !.dialed = t, !.dialEp = Len(hist[f]),
                              !.st = "dialfailed"]]
              /\ fpc' = [fpc EXCEPT ![f] = "dialfail"]
    /\ UNCHANGED <<cfgVars, allocVars, dest, hist, cur, runVars,
                   debVars, signalout, sent>>

\* net.Dial("tcp", raddr).  On failure the inbound socket is closed and the
\* loop continues; on success the two relay goroutines are started.  Nothing
\* listens on port 0.
FwdDial(f) ==
    /\ ~Exited
    /\ fpc[f] = "dial"
    /\ LET c == cur[f]
           t == DialTarget(f, c)
       IN  \/ /\ t # 0
              /\ conns' = [conns EXCEPT ![c] =
                    [@ EXCEPT !.dialed = t, !.dialEp = Len(hist[f]),
                              !.st = "relaying", !.remote = "open",
                              !.rd = "copy", !.wr = "copy"]]
           \/ /\ conns' = [conns EXCEPT ![c] =
                    [@ EXCEPT !.dialed = t, !.dialEp = Len(hist[f]),
                              !.st = "dialfailed", !.sock = "closed"]]
    /\ fpc' = [fpc EXCEPT ![f] = "accept"]
    /\ UNCHANGED <<cfgVars, allocVars, dest, hist, cur, runVars,
                   debVars, signalout, sent>>

\* The read thread: io.Copy(sock, remote) returns (end of stream or an I/O
\* error), then sock.Close().
ReadThreadEnd(c) ==
    /\ ~Exited
    /\ conns[c].rd = "copy"
    /\ conns' = [conns EXCEPT ![c] = [@ EXCEPT !.rd = "done", !.sock = "closed"]]
    /\ UNCHANGED <<cfgVars, allocVars, dest, hist, fpc, cur, runVars,
                   debVars, signalout, sent>>

\* The write thread: io.Copy(remote, sock) returns, then sock.Close().
WriteThreadEnd(c) ==
    /\ ~Exited
    /\ conns[c].wr = "copy"
    /\ conns' = [conns EXCEPT ![c] = [@ EXCEPT !.wr = "done", !.sock = "closed"]]
    /\ UNCHANGED <<cfgVars, allocVars, dest, hist, fpc, cur, runVars,
                   debVars, signalout, sent>>

(***************************************************************************)
(* The supervisor and the forwarders, the debouncer reduced to PulseSent.  *)
(***************************************************************************)
Next ==
    \/ \E k \in DOMAIN portMap : RunnerCycle(k)
    \/ RunnerStore
    \/ RunnerStart
    \/ RunnerRecv
    \/ RunnerKill
    \/ RunnerWait
    \/ ChildExit
    \/ PulseSent
    \/ \E f \in Fwds : FwdListen(f)
    \/ \E f \in Fwds : FwdAccept(f)
    \/ \E f \in Fwds : FwdLoad(f)
    \/ \E f \in Fwds : FwdDial(f)
    \/ \E c \in DOMAIN conns : ReadThreadEnd(c)
    \/ \E c \in DOMAIN conns : WriteThreadEnd(c)

\* The configuration of the README's example range, one forwarder or two
\* pairs on one public port.
Init ==
    InitWith({<<50000, 50002>>},
             {a \in AddrEnvChoices : Cardinality(DOMAIN PortMapOf(a)) = 1},
             {FALSE})

Spec == Init /\ [][Next]_vars

(***************************************************************************)
(* The supervisor and the allocator alone, over every configuration: the   *)
(* forwarders' goroutines take no step.                                    *)
(***************************************************************************)
InitRun == InitWith(PortRanges, AddrEnvChoices, {FALSE})

NextRun ==
    \/ \E k \in DOMAIN portMap : RunnerCycle(k)
    \/ RunnerStore
    \/ RunnerStart
    \/ RunnerRecv
    \/ RunnerKill
    \/ RunnerWait
    \/ ChildExit
    \/ PulseSent

SpecRun == InitRun /\ [][NextRun]_vars

(***************************************************************************)
(* debouncer (src/main.go:152-178), its timer, the clock and the file      *)
(* watcher's events.  The debouncer's steps take no time: the clock        *)
(* advances only while the debouncer is blocked, and never past the        *)
(* deadline of an armed timer.                                             *)
(*                                                                         *)
(* timer.C holds at most one value (tC).  timer.Reset on a timer that has  *)
(* fired and whose value was not received: with the timers of Go 1.23      *)
(* (timerSync) the stale value is discarded; with the timers of earlier    *)
(* toolchains, or asynctimerchan=1, it stays in the channel.               *)
(***************************************************************************)
\* signalin <- struct{}{} in main's signal(): a change event is queued.
\* A burst is a run of events each less than Delay after the one before,
\* with more than Delay of silence before it.
Enqueue ==
    /\ ~Exited
    /\ events < MaxEvents
    /\ signalin < ChanCap
    /\ signalin' = signalin + 1
    /\ events' = events + 1
    /\ lastEnq' = now
    /\ LET newBurst == lastEnq = NoTime \/ now - lastEnq > Delay
       IN  /\ burstOK' = IF newBurst THEN TRUE
                          ELSE burstOK /\ now - lastEnq < Delay
           /\ burstPulses' = IF newBurst THEN 0 ELSE burstPulses
           /\ bursts' = IF newBurst THEN bursts + 1 ELSE bursts
           /\ spacingOK' = (spacingOK /\ (newBurst \/ now - lastEnq < Delay))
    /\ pending' = TRUE
    /\ UNCHANGED <<cfgVars, allocVars, fwdVars, runVars, dpc, tArmed,
                   tDeadline, tC, now, lastRecv, lastSend, signalout, sent>>

\* <-input at the top of the outer loop.
DebRecv ==
    /\ ~Exited
    /\ UNCHANGED <<bursts, spacingOK, pending>>
    /\ dpc = "idle"
    /\ signalin > 0
    /\ signalin' = signalin - 1
    /\ lastRecv' = now
    /\ dpc' = "reset"
    /\ UNCHANGED <<cfgVars, allocVars, fwdVars, runVars, tArmed, tDeadline,
                   tC, now, events, lastEnq, burstPulses, burstOK, lastSend,
                   signalout, sent>>

\* What timer.Reset leaves in timer.C.
ResetChannel(c) == IF timerSync THEN 0 ELSE c

\* timer.Reset(delay)
DebReset ==
    /\ ~Exited
    /\ UNCHANGED <<bursts, spacingOK, pending>>
    /\ dpc = "reset"
    /\ tArmed' = TRUE
    /\ tDeadline' = now + Delay
    /\ tC' = ResetChannel(tC)
    /\ dpc' = "select"
    /\ UNCHANGED <<cfgVars, allocVars, fwdVars, runVars, now, signalin,
                   events, lastEnq, lastRecv, burstPulses, burstOK, lastSend,
                   signalout, sent>>

\* select { case <-input: ... case <-timer.C: ... }: with both ready Go
\* takes either.
DebSelect ==
    /\ ~Exited
    /\ UNCHANGED <<bursts, spacingOK, pending>>
    /\ dpc = "select"
    /\ \/ /\ signalin > 0
          /\ signalin' = signalin - 1
          /\ lastRecv' = now
          /\ dpc' = "reset"
          /\ UNCHANGED tC
       \/ /\ tC = 1
          /\ tC' = 0
          /\ dpc' = "send"
          /\ UNCHANGED <<signalin, lastRecv>>
    /\ UNCHANGED <<cfgVars, allocVars, fwdVars, runVars, tArmed, tDeadline,
                   now, events, lastEnq, burstPulses, burstOK, lastSend,
                   signalout, sent>>

\* output <- struct{}{}
DebSend ==
    /\ ~Exited
    /\ dpc = "send"
    /\ signalout < ChanCap
    /\ signalout' = signalout + 1
    /\ sent' = sent + 1
    /\ burstPulses' = burstPulses + 1
    /\ lastSend' = [at |-> now, lastRecv |-> lastRecv]
    /\ pending' = FALSE
    /\ UNCHANGED <<bursts, spacingOK>>
    /\ dpc' = "drain"
    /\ UNCHANGED <<cfgVars, allocVars, fwdVars, runVars, tArmed, tDeadline,
                   tC, now, signalin, events, lastEnq, lastRecv, burstOK>>

\* DrainLoop: queued events are received and dropped until none is left.
DebDrain ==
    /\ ~Exited
    /\ UNCHANGED <<bursts, spacingOK, pending>>
    /\ dpc = "drain"
    /\ \/ /\ signalin > 0
          /\ signalin' = signalin - 1
          /\ lastRecv' = now
          /\ UNCHANGED dpc
       \/ /\ signalin = 0
          /\ dpc' = "idle"
          /\ UNCHANGED <<signalin, lastRecv>>
    /\ UNCHANGED <<cfgVars, allocVars, fwdVars, runVars, tArmed, tDeadline,
                   tC, now, events, lastEnq, burstPulses, burstOK, lastSend,
                   signalout, sent>>

\* The runtime fires the timer at its deadline: a value is put in timer.C.
TimerFire ==
    /\ ~Exited
    /\ UNCHANGED <<bursts, spacingOK, pending>>
    /\ tArmed
    /\ now >= tDeadline
    /\ tArmed' = FALSE
    /\ tC' = 1
    /\ UNCHANGED <<cfgVars, allocVars, fwdVars, runVars, dpc, tDeadline, now,
                   signalin, events, lastEnq, lastRecv, burstPulses, burstOK,
                   lastSend, signalout, sent>>

\* The debouncer has a step it can take now.
DebReady ==
    \/ dpc \in {"reset", "drain"}
    \/ dpc = "idle" /\ signalin > 0
    \/ dpc = "select" /\ (signalin > 0 \/ tC = 1)
    \/ dpc = "send" /\ signalout < ChanCap

Tick ==
    /\ ~Exited
    /\ UNCHANGED <<bursts, spacingOK, pending>>
    /\ now < MaxTime
    /\ ~(tArmed /\ now >= tDeadline)
    /\ ~DebReady
    /\ now' = now + 1
    /\ UNCHANGED <<cfgVars, allocVars, fwdVars, runVars, dpc, tArmed,
                   tDeadline, tC, signalin, events, lastEnq, lastRecv,
                   burstPulses, burstOK, lastSend, signalout, sent>>

InitDeb ==
    InitWith({<<50000, 50002>>}, {<< [env |-> "A", src |-> 8080] >>}, BOOLEAN)

NextDeb ==
    \/ Enqueue
    \/ DebRecv
    \/ DebReset
    \/ DebSelect
    \/ DebSend
    \/ DebDrain
    \/ TimerFire
    \/ Tick

SpecDeb == InitDeb /\ [][NextDeb]_vars

(***************************************************************************)
(* The supervisor and the processes of the child's group.  The child is    *)
(* started with Setpgid (src/main.go:187): it leads a new process group,   *)
(* which the processes it forks belong to until they leave it.  desc[n] is *)
(* a descendant of child n: "none" (not forked), "group" (running, in the  *)
(* child's group), "detached" (running, in another group or session),      *)
(* "killed" (SIGKILL sent, not yet ended) or "dead".                       *)
(***************************************************************************)
\* The child forks a process.
DescFork(n) ==
    /\ ~Exited
    /\ UNCHANGED inCycle
    /\ children[n].st = "running"
    /\ desc[n] = "none"
    /\ desc' = [desc EXCEPT ![n] = "group"]
    /\ UNCHANGED <<cfgVars, allocVars, fwdVars, rpc, todo, cmdEnv, children,
                   rlog, consumed, debVars, signalout, sent>>

\* The descendant leaves the child's process group (setsid, setpgid).
DescSetsid(n) ==
    /\ ~Exited
    /\ UNCHANGED inCycle
    /\ desc[n] = "group"
    /\ desc' = [desc EXCEPT ![n] = "detached"]
    /\ UNCHANGED <<cfgVars, allocVars, fwdVars, rpc, todo, cmdEnv, children,
                   rlog, consumed, debVars, signalout, sent>>

\* The descendant ends: by itself, or by the SIGKILL sent to it.
DescEnd(n) ==
    /\ ~Exited
    /\ UNCHANGED inCycle
    /\ desc[n] \in {"group", "detached", "killed"}
    /\ desc' = [desc EXCEPT ![n] = "dead"]
    /\ UNCHANGED <<cfgVars, allocVars, fwdVars, rpc, todo, cmdEnv, children,
                   rlog, consumed, debVars, signalout, sent>>

InitGrp ==
    InitWith({<<50000, 50002>>}, {<< [env |-> "A", src |-> 8080] >>}, {FALSE})

NextGrp ==
    \/ \E k \in DOMAIN portMap : RunnerCycle(k)
    \/ RunnerStore
    \/ RunnerStart
    \/ RunnerRecv
    \/ RunnerKill
    \/ RunnerWait
    \/ ChildExit
    \/ PulseSent
    \/ \E n \in DOMAIN children : DescFork(n)
    \/ \E n \in DOMAIN children : DescSetsid(n)
    \/ \E n \in DOMAIN children : DescEnd(n)

SpecGrp == InitGrp /\ [][NextGrp]_vars

(***************************************************************************)
(* Cycle() and nextPort() statement by statement (src/main.go:41-51,       *)
(* 70-74), called by several goroutines at once, one per forwarder.  In    *)
(* the program the runner is the only caller; this is the same code under  *)
(* concurrent callers.  portMutex is 0 when free, else the caller that     *)
(* holds it.                                                               *)
(***************************************************************************)
\* A variant of MutexFree: a Lock() that never waits.
MutexNeverWaits == TRUE

\* portMutex.Lock() returns only while nobody holds the mutex.
MutexFree == portMutex = 0

\* portMutex.Lock()
CallLock(c) ==
    /\ ~Exited
    /\ callers[c].pc = "idle"
    /\ Len(callers[c].got) < MaxCalls
    /\ MutexFree
    /\ portMutex' = c
    /\ callers' = [callers EXCEPT ![c].pc = "incload"]
    /\ UNCHANGED <<cfgVars, portCycle, returned, fwdVars, runVars, debVars,
                   signalout, sent>>

\* portCycle++, the read of the variable.
CallIncLoad(c) ==
    /\ ~Exited
    /\ callers[c].pc = "incload"
    /\ callers' = [callers EXCEPT ![c].pc = "incstore", ![c].reg = portCycle]
    /\ UNCHANGED <<cfgVars, portCycle, returned, portMutex, fwdVars, runVars,
                   debVars, signalout, sent>>

\* portCycle++, the write of the incremented uint16.
CallIncStore(c) ==
    /\ ~Exited
    /\ callers[c].pc = "incstore"
    /\ portCycle' = (callers[c].reg + 1) % UInt16Mod
    /\ callers' = [callers EXCEPT ![c].pc = "compare"]
    /\ UNCHANGED <<cfgVars, returned, portMutex, fwdVars, runVars, debVars,
                   signalout, sent>>

\* if portCycle == uint16(portMax)
CallCompare(c) ==
    /\ ~Exited
    /\ callers[c].pc = "compare"
    /\ callers' = [callers EXCEPT ![c].pc =
                      IF portCycle = ToUint16(portMax) THEN "wrap" ELSE "return"]
    /\ UNCHANGED <<cfgVars, portCycle, returned, portMutex, fwdVars, runVars,
                   debVars, signalout, sent>>

\* portCycle = uint16(portMin)
CallWrap(c) ==
    /\ ~Exited
    /\ callers[c].pc = "wrap"
    /\ portCycle' = ToUint16(portMin)
    /\ callers' = [callers EXCEPT ![c].pc = "return"]
    /\ UNCHANGED <<cfgVars, returned, portMutex, fwdVars, runVars, debVars,
                   signalout, sent>>

\* return portCycle: the result is read, then the deferred
\* portMutex.Unlock() runs.
CallReturn(c) ==
    /\ ~Exited
    /\ callers[c].pc = "return"
    /\ returned' = Append(returned, portCycle)
    /\ callers' = [callers EXCEPT ![c].pc = "store",
                                  ![c].got = Append(@, portCycle)]
    /\ portMutex' = 0
    /\ UNCHANGED <<cfgVars, portCycle, fwdVars, runVars, debVars,
                   signalout, sent>>

\* atomic.StoreUint32(&p.dest, uint32(port)) in Cycle(), for forwarder c.
CallStore(c) ==
    /\ ~Exited
    /\ callers[c].pc = "store"
    /\ LET port == callers[c].got[Len(callers[c].got)]
       IN  /\ dest' = [dest EXCEPT ![c] = port]
           /\ hist' = [hist EXCEPT ![c] = Append(@, port)]
    /\ callers' = [callers EXCEPT ![c].pc = "idle"]
    /\ UNCHANGED <<cfgVars, portCycle, returned, portMutex, fpc, cur, conns,
                   runVars, debVars, signalout, sent>>

\* Two forwarders, every range.
InitConc ==
    InitWith(PortRanges, {a \in AddrEnvChoices : Len(a) = 2}, {FALSE})

NextConc ==
    \/ \E c \in Fwds : CallLock(c)
    \/ \E c \in Fwds : CallIncLoad(c)
    \/ \E c \in Fwds : CallIncStore(c)
    \/ \E c \in Fwds : CallCompare(c)
    \/ \E c \in Fwds : CallWrap(c)
    \/ \E c \in Fwds : CallReturn(c)
    \/ \E c \in Fwds : CallStore(c)

SpecConc == InitConc /\ [][NextConc]_vars

(***************************************************************************)
(* Properties.                                                             *)
(***************************************************************************)
\* Number of forwarders registered in portMap.
NumMapped == Cardinality(DOMAIN portMap)

\* The ports advertised in an environment.
PortsOf(env) == {env[i].port : i \in DOMAIN env}

\* The children that are running.
Live == {n \in DOMAIN children : children[n].st = "running"}

\* C1 as stated: every time the runner is back at <-signal after it consumed
\* a pulse, it has done since that pulse, in this order and once each: the
\* SIGKILL, the Wait of the old child, one Cycle() on every declared
\* forwarder (one per -addr-env pair), and the spawn of a child whose
\* environment carries the port of every declared forwarder; and the k-th
\* pulse is never consumed before the k-th spawn.
C1_EveryDeclaredCycled ==
    /\ consumed <= Len(children)
    /\ (rpc = "recv" /\ consumed >= 1) =>
          /\ Len(children) = consumed + 1
          /\ children[cmd - 1].st = "reaped"
          /\ Len(rlog) = Len(addrEnvs) + 3
          /\ rlog[1].op = "kill"
          /\ rlog[2].op = "reap"
          /\ \A i \in 3..(Len(rlog) - 1) : rlog[i].op = "cycle"
          /\ {rlog[i].fwd : i \in 3..(Len(rlog) - 1)} = Fwds
          /\ rlog[Len(rlog)].op = "spawn"
          /\ \A f \in Fwds :
                \E i \in DOMAIN children[cmd].env :
                    children[cmd].env[i] =
                        [name |-> addrEnvs[f].env, host |-> "localhost",
                         port |-> dest[f]]

\* C1 amended: every time the runner is back at <-signal after it consumed a
\* pulse, it has done since that pulse, in this order and once each: the
\* SIGKILL, the Wait of the old child, one Cycle() per forwarder registered
\* in portMap (one per distinct public port, the last pair given for it),
\* and the spawn of a child whose environment carries exactly the ports
\* those Cycle() calls returned; and the k-th pulse is never consumed before
\* the k-th spawn.
C1_RestartCycle ==
    /\ consumed <= Len(children)
    /\ (rpc = "recv" /\ consumed >= 1) =>
          /\ Len(children) = consumed + 1
          /\ children[cmd - 1].st = "reaped"
          /\ Len(rlog) = NumMapped + 3
          /\ rlog[1].op = "kill"
          /\ rlog[2].op = "reap"
          /\ \A i \in 3..(NumMapped + 2) : rlog[i].op = "cycle"
          /\ {rlog[i].fwd : i \in 3..(NumMapped + 2)} =
                {portMap[k] : k \in DOMAIN portMap}
          /\ rlog[NumMapped + 3].op = "spawn"
          /\ children[cmd].env =
                [i \in 1..NumMapped |->
                    [name |-> addrEnvs[rlog[i + 2].fwd].env,
                     host |-> "localhost",
                     port |-> rlog[i + 2].port]]

\* C1 witness: a restart has completed with two forwarders registered.
C1_Witness ==
    /\ rpc = "recv"
    /\ consumed >= 1
    /\ NumMapped = 2
    /\ children[cmd].st = "running"

\* C4: with a range of size K >= 1, the i-th nextPort() call, i <= K + 1,
\* returns port-min + ((i - 1) mod K).
C4_FirstCycle ==
    RangeSize >= 1 =>
        \A i \in DOMAIN returned :
            i <= RangeSize + 1 => returned[i] = portMin + ((i - 1) % RangeSize)

\* C4 witness: K + 1 calls were made on a range of size K >= 2, the last one
\* wrapping around to port-min.
C4_Witness ==
    /\ RangeSize >= 2
    /\ Len(returned) >= RangeSize + 1
    /\ returned[RangeSize + 1] = portMin

\* C6 as stated: while a child runs, its environment holds, for every pair
\* given in -addr-env, one entry NAME=localhost:PORT, PORT being the current
\* destination of that pair's forwarder.
C6_EveryPairAdvertised ==
    rpc = "recv" =>
        \A f \in Fwds :
            Cardinality({i \in DOMAIN children[cmd].env :
                children[cmd].env[i] =
                    [name |-> addrEnvs[f].env, host |-> "localhost",
                     port |-> dest[f]]}) = 1

\* C6 amended: while a child runs, its environment holds exactly one entry
\* per forwarder registered in portMap (one per distinct public port, the
\* last pair given for it), NAME=localhost:PORT with PORT that forwarder's
\* current destination.
C6_MappedAdvertised ==
    rpc = "recv" =>
        /\ Len(children[cmd].env) = NumMapped
        /\ \A k \in DOMAIN portMap :
              Cardinality({i \in DOMAIN children[cmd].env :
                  children[cmd].env[i] =
                      [name |-> addrEnvs[portMap[k]].env, host |-> "localhost",
                       port |-> dest[portMap[k]]]}) = 1

\* C6 witness: a child runs after a restart, with two forwarders registered.
C6_Witness ==
    /\ rpc = "recv"
    /\ Len(children) >= 2
    /\ NumMapped = 2
    /\ \A k \in DOMAIN portMap : dest[portMap[k]] # 0

\* C7 as stated: with a non-empty range, no port advertised to a child was
\* advertised to the child before it.
C7_NoPortReused ==
    RangeSize >= 1 =>
        \A n \in DOMAIN children :
            n >= 2 =>
                PortsOf(children[n].env) \cap PortsOf(children[n - 1].env) = {}

\* C7 amended: the same, for ranges that hold at least twice as many ports
\* as there are forwarders in portMap.
C7_NoPortReusedWideRange ==
    RangeSize >= 2 * NumMapped =>
        \A n \in DOMAIN children :
            n >= 2 =>
                PortsOf(children[n].env) \cap PortsOf(children[n - 1].env) = {}

\* C7 witness: two forwarders, a range of four ports, and a third child
\* spawned (the allocator has wrapped around).
C7_Witness ==
    /\ NumMapped = 2
    /\ RangeSize = 2 * NumMapped
    /\ Len(children) >= 3

\* C10: at most one child is running.
C10_OneChild == Cardinality(Live) <= 1

\* C10 witness: a second child runs, the first one reaped.
C10_Witness ==
    /\ Len(children) >= 2
    /\ children[cmd].st = "running"
    /\ children[cmd - 1].st = "reaped"

\* The connections for which net.Dial has been called.
Dialed == {c \in DOMAIN conns : conns[c].st \in {"relaying", "dialfailed"}}

\* C5 as stated, for the connections handled after the forwarder's first
\* Cycle(): a connection is dialed to the destination that is current when
\* it is dialed.
C5_DialsCurrentDest ==
    \A c \in Dialed :
        conns[c].loadEp >= 1 =>
            conns[c].dialed = DestAt(conns[c].fwd, conns[c].dialEp)

\* C5, first part: what each connection was dialed to is the value p.dest
\* held when it was loaded for that connection.
C5_DialsLoadedDest ==
    \A c \in Dialed :
        conns[c].dialed = DestAt(conns[c].fwd, conns[c].loadEp)

\* C5, second part: a step that stores a new destination leaves every
\* connection as it is.
C5_CycleKeepsConns ==
    (\E f \in Fwds : hist[f]' # hist[f]) => conns' = conns

\* C5 amended: a connection is dialed to the destination that was current
\* when the accept loop loaded p.dest for it (once per connection, before
\* the dial), also when a Cycle() comes between the load and the dial; and
\* a Cycle() changes no connection.
C5_ReadOncePerConn == []C5_DialsLoadedDest /\ [][C5_CycleKeepsConns]_vars

\* C5 witness: a connection dialed before a rotation still relays to the old
\* destination while a later one relays to the new destination.
C5_Witness ==
    \E c, d \in DOMAIN conns :
        /\ conns[c].fwd = conns[d].fwd
        /\ conns[c].st = "relaying" /\ conns[c].rd = "copy" /\ conns[c].wr = "copy"
        /\ conns[d].st = "relaying"
        /\ conns[c].loadEp < conns[d].loadEp
        /\ conns[c].dialed # conns[d].dialed
        /\ conns[d].dialed = dest[conns[d].fwd]

\* C8 as stated: no child runs while a forwarder's listener could not bind.
C8_BindFailureAborts ==
    \A f \in Fwds : fpc[f] = "bindfail" => Live = {}

\* C9 as stated: once a relay direction of a connection has ended, the
\* inbound and the outbound socket of the connection are closed.
C9_BothEndsClosed ==
    \A c \in DOMAIN conns :
        (conns[c].rd = "done" \/ conns[c].wr = "done") =>
            /\ conns[c].sock = "closed"
            /\ conns[c].remote = "closed"

\* The current burst is over: more than Delay has passed since its last
\* event, every gap in it was shorter than Delay, and the debouncer is back
\* at <-input with nothing queued.
BurstOver ==
    /\ lastEnq # NoTime
    /\ now - lastEnq > Delay
    /\ burstOK
    /\ dpc = "idle"
    /\ signalin = 0

\* C2 as stated: a burst that is over produced exactly one pulse.
C2_OnePulsePerBurst == BurstOver => burstPulses = 1

\* C11 as stated: once two bursts have come, each with gaps shorter than
\* Delay inside it and more than Delay of silence before the second, and the
\* second is over, exactly two pulses have been sent.
C11_TwoBurstsTwoPulses ==
    (bursts = 2 /\ spacingOK /\ BurstOver) => sent = 2

\* C3 as stated: at every send on the output channel at least Delay has
\* passed since the last input event the debouncer received.
C3_NoEarlyPulse ==
    lastSend.at # NoTime => lastSend.at - lastSend.lastRecv >= Delay

\* C12 as stated: with port-min < port-max, once nextPort() has gone round
\* the range (more calls than the range holds ports), port-max is among the
\* values it returned, and no value it returned is larger than port-max.
C12_PortMaxIsLastPort ==
    (portMin < portMax /\ Len(returned) > RangeSize) =>
        /\ \E i \in DOMAIN returned : returned[i] = portMax
        /\ \A i \in DOMAIN returned : returned[i] <= portMax

\* C13 as stated: every event put on the input channel is followed by a
\* pulse.  The debouncer sends a pulse only after it has received an event:
\* when it is back at <-input with the input channel empty, no pulse comes
\* until another event does, so by then a pulse has been sent since the last
\* event was enqueued.
C13_NoEventLost ==
    (dpc = "idle" /\ signalin = 0) => ~pending

\* C14 as stated: every dial of a forwarder targets a port of
\* [port-min, port-max), the one its latest completed Cycle() returned;
\* also for a connection accepted before the runner's first Cycle().
C14_DialsAssignedPort ==
    \A c \in Dialed :
        /\ conns[c].dialed \in portMin..(portMax - 1)
        /\ conns[c].dialEp >= 1
        /\ conns[c].dialed = DestAt(conns[c].fwd, conns[c].dialEp)

\* C15, first part: a connection whose dial failed has its inbound socket
\* closed, no outbound socket and no relay goroutine.
C15_FailedDialClosed ==
    \A c \in DOMAIN conns :
        conns[c].st = "dialfailed" =>
            /\ conns[c].sock = "closed"
            /\ conns[c].remote = "none"
            /\ conns[c].rd = "none"
            /\ conns[c].wr = "none"

\* C15, second part: the step in which a dial fails leaves the forwarder at
\* l.Accept() and the program running, and no forwarder's Run ends from
\* anywhere but net.Listen or l.Accept.
C15_FailureKeepsLoop ==
    /\ \A c \in DOMAIN conns :
          (conns[c].st # "dialfailed" /\ conns'[c].st = "dialfailed") =>
              /\ fpc'[conns[c].fwd] = "accept"
              /\ ~Exited'
              /\ rpc' = rpc
    /\ \A f \in Fwds :
          (fpc'[f] # fpc[f] /\ ~Listening(f)') => fpc[f] \in {"listen", "accept"}

\* C15: when a forwarder's dial fails, the inbound connection is closed, no
\* relay goroutine is started for it, and the forwarder goes back to
\* l.Accept(): neither the forwarder nor the program stops, so a connection
\* made later is accepted and, its dial succeeding, relayed (C15_Witness).
C15_DialFailureHandled ==
    []C15_FailedDialClosed /\ [][C15_FailureKeepsLoop]_vars

\* C15 witness: a dial to the destination a Cycle() assigned failed, and a
\* later connection of the same forwarder is relayed to the destination of
\* the running child.
C15_Witness ==
    \E c, d \in DOMAIN conns :
        /\ c < d
        /\ conns[c].fwd = conns[d].fwd
        /\ conns[c].st = "dialfailed" /\ conns[c].dialed # 0
        /\ conns[d].st = "relaying" /\ conns[d].rd = "copy" /\ conns[d].wr = "copy"
        /\ conns[d].dialed = dest[conns[d].fwd]
        /\ Live # {}
        /\ fpc[conns[d].fwd] = "accept"

\* C16: with a range of size K >= 2, any two of K consecutive nextPort()
\* calls, whichever forwarders they were made for, return different ports.
C16_DistinctWithinCycle ==
    RangeSize >= 2 =>
        \A i, j \in DOMAIN returned :
            (i < j /\ j - i < RangeSize) => returned[i] # returned[j]

\* C16 witness: two forwarders share a range of size K >= 2 and the call
\* K + 1 has returned the port of call 1 again, a full cycle later.
C16_Witness ==
    /\ RangeSize >= 2
    /\ NumMapped = 2
    /\ Len(returned) > RangeSize
    /\ returned[RangeSize + 1] = returned[1]
    /\ \E i, j \in DOMAIN rlog :
          rlog[i].op = "cycle" /\ rlog[j].op = "cycle" /\ rlog[i].fwd # rlog[j].fwd

\* C17 as stated: in every reachable state, the initial one included, the
\* cursor lies in [port-min, port-max).
C17_CursorInRange == portCycle \in portMin..(portMax - 1)

\* C17 amended: before the first nextPort() call the cursor is
\* port-min - 1 (modulo 2^16); after it, with a non-empty range, the cursor
\* lies in [port-min, port-max).
C17_CursorInRangeAfterFirstCall ==
    /\ Len(returned) = 0 => portCycle = InitialCursor(portMin)
    /\ (Len(returned) >= 1 /\ RangeSize >= 1) =>
          portCycle \in portMin..(portMax - 1)

\* C17 witness: the cursor has gone round a range of two or more ports and
\* is back at port-min.
C17_Witness ==
    /\ RangeSize >= 2
    /\ Len(returned) > RangeSize
    /\ portCycle = portMin

\* The callers that are between Lock() and Unlock().
InNextPort ==
    {c \in Fwds : callers[c].pc \in
        {"incload", "incstore", "compare", "wrap", "return"}}

\* How many of the calls of a sequence returned port v.
TimesIn(seq, v) == Cardinality({i \in DOMAIN seq : seq[i] = v})

\* Sum of TimesIn(callers[c].got, v) over the callers 1..n.
RECURSIVE TimesHanded(_, _)
TimesHanded(n, v) ==
    IF n = 0 THEN 0 ELSE TimesIn(callers[n].got, v) + TimesHanded(n - 1, v)

\* C18: with goroutines calling Cycle() on different forwarders at once, at
\* most one of them is inside nextPort(); the values returned, in the order
\* of the returns, are the consecutive values of the cyclic sequence, each
\* the successor of the one before (no advance of the cursor is lost); and
\* every value returned was handed to exactly one caller.
C18_AtomicNextPort ==
    /\ Cardinality(InNextPort) <= 1
    /\ \A i \in DOMAIN returned :
          returned[i] = nextPort(IF i = 1 THEN InitialCursor(portMin)
                                         ELSE returned[i - 1])
    /\ \A i \in DOMAIN returned :
          TimesHanded(Len(addrEnvs), returned[i]) = TimesIn(returned, returned[i])
    /\ portMutex = 0 =>
          portCycle = (IF returned = <<>> THEN InitialCursor(portMin)
                       ELSE returned[Len(returned)])

\* C18 witness: one caller has returned from nextPort() and not yet stored
\* its port while the other is inside nextPort(), after the cursor has gone
\* round a range of two or more ports and both callers have been served.
C18_Witness ==
    /\ RangeSize >= 2
    /\ Len(returned) > RangeSize
    /\ \A c \in Fwds : Len(callers[c].got) >= 1
    /\ \E c, d \in Fwds :
          /\ c # d
          /\ callers[c].pc = "store"
          /\ d \in InNextPort

\* C19: when the range holds at least as many ports as there are forwarders
\* in portMap (which are at most the pairs declared), the address entries of
\* a child's environment carry pairwise different ports, and while a child
\* runs the forwarders have pairwise different destinations.
C19_DistinctPortsPerSpawn ==
    NumMapped <= RangeSize =>
        /\ \A n \in DOMAIN children :
              \A i, j \in DOMAIN children[n].env :
                  i # j => children[n].env[i].port # children[n].env[j].port
        /\ rpc = "recv" =>
              \A k, l \in DOMAIN portMap :
                  k # l => dest[portMap[k]] # dest[portMap[l]]

\* C19 witness: two forwarders on a range of exactly two ports, a second
\* child running with two address entries.
C19_Witness ==
    /\ NumMapped = 2
    /\ RangeSize = 2
    /\ rpc = "recv"
    /\ Len(children) >= 2
    /\ Len(children[cmd].env) = 2

\* Child n and its descendant have ended.
GroupGone(n) ==
    /\ children[n].st \in {"zombie", "reaped"}
    /\ desc[n] \in {"none", "dead"}

\* C20 as stated: at the step that spawns a new child, the old child and
\* every descendant it created have ended, also when the old child had
\* exited before the pulse arrived.
C20_OldGroupGone ==
    [][(children # <<>> /\ Len(children') > Len(children)) =>
            GroupGone(Len(children))]_vars

====
